---------------------------- MODULE Spec2Model ----------------------------
(***************************************************************************)
(* Model of internal/services/producer.go (strimzi-canary).                *)
(*                                                                         *)
(* ProducerService wraps a Sarama sync producer.  Send(numPartitions)      *)
(* builds one canary message per partition and sends it synchronously,     *)
(* updating three Prometheus instruments.  Refresh and Close are the       *)
(* lifecycle operations.  The Sarama client/producer and the clock are the *)
(* environment: every call into them returns nondeterministically with     *)
(* success or an error, and the clock can be stepped forward or backward.  *)
(*                                                                         *)
(* Spec is the program driven by one goroutine, i.e. with non-overlapping  *)
(* invocations.  The methods take no lock, so SpecConcurrent lets several  *)
(* goroutines run them at once (with the clock standing still).            *)
(***************************************************************************)
EXTENDS Integers, Sequences, FiniteSets, TLC

(* ------------------------------ bounds -------------------------------- *)

MaxPartitions == 2      \* numPartitions is drawn from 0..MaxPartitions
MaxMessages   == 3      \* total number of messages the Sends of a run ask for
MaxCloses     == 2      \* total number of Close calls that return in a run
MaxClock      == 2      \* the clock takes the values 0..MaxClock (in ticks)
NanosPerTick  == 500000 \* nanoseconds in one tick of the model's clock

(* goroutines that may call into the service *)
Callers == {"g1", "g2"}
(* the single goroutine of Spec *)
Scheduler == "g1"

(* canaryConfig.ClientID and canaryConfig.Topic *)
ClientID == "canary"
Topic    == "__strimzi_canary"

(* ------------------------- pure helper functions ----------------------- *)

NanosPerMilli == 1000000

(* time.Now().UnixNano() / 1000000 : Go integer division truncates to 0 *)
UnixMillis(nanos) ==
    IF nanos >= 0 THEN nanos \div NanosPerMilli
                  ELSE -((-nanos) \div NanosPerMilli)

MaxInt32 == 2147483647

(* int32(i) : the value itself when it fits in 32 bits; a Go int outside    *)
(* that range wraps modulo 2^32 (the loop variable of the bounded runs     *)
(* stays far inside the range)                                             *)
Int32(n) ==
    IF n >= -MaxInt32 - 1 /\ n <= MaxInt32
    THEN n
    ELSE ((n + MaxInt32 + 1) % (2 * (MaxInt32 + 1))) - MaxInt32 - 1

Digits == <<"0", "1", "2", "3", "4", "5", "6", "7", "8", "9">>

RECURSIVE ItoaNat(_)
ItoaNat(n) ==
    IF n < 10 THEN <<Digits[n + 1]>>
              ELSE ItoaNat(n \div 10) \o <<Digits[(n % 10) + 1]>>

(* strconv.Itoa(i) : the decimal digits of i, as a sequence of characters *)
Itoa(n) == IF n < 0 THEN <<"-">> \o ItoaNat(-n) ELSE ItoaNat(n)

(* prometheus.Labels{"clientid": ClientID, "partition": strconv.Itoa(i)} *)
Labels(n) == [clientid |-> ClientID, partition |-> Itoa(n)]

(* the labels the bounded runs can use *)
LabelSet == {Labels(p) : p \in 0..MaxPartitions}

(* float64(duration) : an int64 of magnitude up to 2^53 converts exactly,   *)
(* and every difference of two millisecond timestamps of the model is      *)
(* far below that                                                          *)
Float64(d) == d

(* mutant: a negative duration is clamped to 0 *)
DurationClamped(timestamp, cmTimestamp) ==
    IF timestamp < cmTimestamp THEN 0 ELSE timestamp - cmTimestamp

(* mutant: the operands of the subtraction swapped *)
DurationReversed(timestamp, cmTimestamp) == cmTimestamp - timestamp

(* duration := timestamp - cm.Timestamp *)
Duration(timestamp, cmTimestamp) == timestamp - cmTimestamp

(* CanaryMessage.Json() : {"producerId":..,"messageId":..,"timestamp":..} *)
Json(m) ==
    <<"producerId", m.ProducerID, "messageId", Itoa(m.MessageID),
      "timestamp", Itoa(m.Timestamp)>>

(* mutant: i <= numPartitions *)
LoopCondOffByOne(iv, n) == iv <= n

(* mutant: the body runs before the first test (a do-while loop) *)
LoopCondAtLeastOnce(iv, n) == iv < n \/ iv = 0

(* the loop condition of Send: i < numPartitions *)
LoopCond(iv, n) == iv < n

(* ------------------------------- state --------------------------------- *)

VARIABLES
    proc,                   \* "start" | "running" | "exited" | "panicked"
    index,                  \* ps.index
    recordsProduced,        \* CounterVec: label -> count
    recordsProducedFailed,  \* CounterVec: label -> count
    recordsProducedLatency, \* HistogramVec: label -> observed samples
    pc,                     \* per goroutine: position in the method it runs
    numPartitions,          \* per goroutine: Send's parameter
    i,                      \* per goroutine: Send's loop variable
    tmp,                    \* per goroutine: the value ps.index++ has read
    cm,                     \* per goroutine: Send's cm
    msg,                    \* per goroutine: Send's msg
    err,                    \* per goroutine: SendMessage returned an error
    timestamp,              \* per goroutine: Send's timestamp
    clock,                  \* environment: the wall clock, in ticks
    monotonic,              \* environment: the clock never went backwards
    producerSends,          \* environment: partition -> SendMessage calls
    producerErrors,         \* environment: partition -> errors returned
    producerClosed,         \* environment: producer.Close() calls that returned nil
    saramaErrors,           \* environment: the other Sarama calls that returned an error
    registry,               \* collectors registered with prometheus.DefaultRegisterer
    newCalls,               \* number of NewProducerService calls
    budget,                 \* messages the Sends started so far asked for
    issued,                 \* the MessageIDs newCanaryMessage returned, in order
    trace                   \* per goroutine: events of its current Send

metrics == <<recordsProduced, recordsProducedFailed, recordsProducedLatency>>
locals  == <<pc, numPartitions, i, tmp, cm, msg, err, timestamp, trace>>
env     == <<clock, monotonic, producerSends, producerErrors, producerClosed,
             saramaErrors>>
setup   == <<registry, newCalls>>
vars    == <<proc, index, metrics, locals, env, setup, budget, issued>>

NoMessage == [ProducerID |-> "", MessageID |-> 0, Timestamp |-> 0]

(* &sarama.ProducerMessage{Topic: ps.canaryConfig.Topic} *)
NoProducerMessage == [Topic |-> Topic, Value |-> <<>>, Partition |-> 0]

Now == clock * NanosPerTick

Event(ev, partition, label, val, ts) ==
    [ev |-> ev, partition |-> partition, label |-> label, val |-> val, ts |-> ts]

NoLabel == [clientid |-> "", partition |-> <<>>]

(* the collectors the package-level var block registers (promauto) *)
PackageCollectors ==
    {"strimzi_canary_records_produced_total",
     "strimzi_canary_records_produced_failed_total"}

(* the histogram NewProducerService registers (promauto) *)
LatencyCollector == "strimzi_canary_records_produced_latency"

(* promauto registers with MustRegister, which panics when a collector of  *)
(* the same name is already registered                                     *)
MustRegisterPanics(name) == name \in registry

Init ==
    /\ proc = "start"
    /\ index = 0
    /\ recordsProduced = [l \in LabelSet |-> 0]
    /\ recordsProducedFailed = [l \in LabelSet |-> 0]
    /\ recordsProducedLatency = [l \in LabelSet |-> <<>>]
    /\ pc = [c \in Callers |-> "idle"]
    /\ numPartitions = [c \in Callers |-> 0]
    /\ i = [c \in Callers |-> 0]
    /\ tmp = [c \in Callers |-> 0]
    /\ cm = [c \in Callers |-> NoMessage]
    /\ msg = [c \in Callers |-> NoProducerMessage]
    /\ err = [c \in Callers |-> FALSE]
    /\ timestamp = [c \in Callers |-> 0]
    /\ clock = 0
    /\ monotonic = TRUE
    /\ producerSends = [p \in 0..MaxPartitions |-> 0]
    /\ producerErrors = [p \in 0..MaxPartitions |-> 0]
    /\ producerClosed = 0
    /\ saramaErrors = {}
    /\ registry = PackageCollectors
    /\ newCalls = 0
    /\ budget = 0
    /\ issued = <<>>
    /\ trace = [c \in Callers |-> <<>>]

(* ----------------------------- construction ---------------------------- *)

(* NewProducerService: the histogram is registered and                    *)
(* sarama.NewSyncProducerFromClient returned no error                      *)
NewProducerServiceOk ==
    /\ proc = "start"
    /\ ~MustRegisterPanics(LatencyCollector)
    /\ registry' = registry \cup {LatencyCollector}
    /\ newCalls' = newCalls + 1
    /\ proc' = "running"
    /\ UNCHANGED <<index, metrics, locals, env, budget, issued>>

(* what NewProducerService does when the producer cannot be created:      *)
(* panic(err)                                                              *)
AfterNewError == "panicked"

(* NewProducerService: the histogram is registered and                    *)
(* sarama.NewSyncProducerFromClient returned an error                      *)
NewProducerServicePanic ==
    /\ proc = "start"
    /\ ~MustRegisterPanics(LatencyCollector)
    /\ registry' = registry \cup {LatencyCollector}
    /\ newCalls' = newCalls + 1
    /\ proc' = AfterNewError
    /\ saramaErrors' = saramaErrors \cup {"new"}
    /\ UNCHANGED <<index, metrics, locals, clock, monotonic, producerSends,
                   producerErrors, producerClosed, budget, issued>>

(* NewProducerService is called while a service exists: registering the    *)
(* histogram again panics, before any producer is created                  *)
NewProducerServiceAgain(c) ==
    /\ proc = "running"
    /\ pc[c] = "idle"
    /\ MustRegisterPanics(LatencyCollector)
    /\ newCalls' = newCalls + 1
    /\ proc' = "panicked"
    /\ UNCHANGED <<index, metrics, locals, env, registry, budget, issued>>

(* -------------------------------- Send --------------------------------- *)

(* Send is called: msg := &sarama.ProducerMessage{Topic: ..}; i := 0 *)
SendStart(c, n) ==
    /\ proc = "running"
    /\ pc[c] = "idle"
    /\ budget + n <= MaxMessages
    /\ budget' = budget + n
    /\ numPartitions' = [numPartitions EXCEPT ![c] = n]
    /\ i' = [i EXCEPT ![c] = 0]
    /\ msg' = [msg EXCEPT ![c] = NoProducerMessage]
    /\ trace' = [trace EXCEPT ![c] = <<>>]
    /\ pc' = [pc EXCEPT ![c] = "loop"]
    /\ UNCHANGED <<proc, index, metrics, tmp, cm, err, timestamp, env, issued,
                   setup>>

(* the loop condition fails: Send returns *)
SendReturn(c) ==
    /\ proc = "running"
    /\ pc[c] = "loop"
    /\ ~LoopCond(i[c], numPartitions[c])
    /\ pc' = [pc EXCEPT ![c] = "done"]
    /\ UNCHANGED <<proc, index, metrics, numPartitions, i, tmp, cm, msg, err,
                   timestamp, trace, env, setup, budget, issued>>

(* the caller takes control back; Send's frame (its locals) is gone *)
SendDone(c) ==
    /\ proc = "running"
    /\ pc[c] = "done"
    /\ pc' = [pc EXCEPT ![c] = "idle"]
    /\ numPartitions' = [numPartitions EXCEPT ![c] = 0]
    /\ i' = [i EXCEPT ![c] = 0]
    /\ tmp' = [tmp EXCEPT ![c] = 0]
    /\ cm' = [cm EXCEPT ![c] = NoMessage]
    /\ msg' = [msg EXCEPT ![c] = NoProducerMessage]
    /\ err' = [err EXCEPT ![c] = FALSE]
    /\ timestamp' = [timestamp EXCEPT ![c] = 0]
    /\ trace' = [trace EXCEPT ![c] = <<>>]
    /\ UNCHANGED <<proc, index, metrics, env, setup, budget, issued>>

(* newCanaryMessage, ps.index++ : the load of ps.index *)
IndexLoad(c) ==
    /\ proc = "running"
    /\ pc[c] = "loop"
    /\ LoopCond(i[c], numPartitions[c])
    /\ tmp' = [tmp EXCEPT ![c] = index]
    /\ pc' = [pc EXCEPT ![c] = "store"]
    /\ UNCHANGED <<proc, index, metrics, numPartitions, i, cm, msg, err,
                   timestamp, trace, env, setup, budget, issued>>

(* mutant: the counter advances by two *)
IncrementedByTwo(v) == v + 2

(* the value ps.index++ stores *)
Incremented(v) == v + 1

(* newCanaryMessage, ps.index++ : the store to ps.index *)
IndexStore(c) ==
    /\ proc = "running"
    /\ pc[c] = "store"
    /\ index' = Incremented(tmp[c])
    /\ pc' = [pc EXCEPT ![c] = "build"]
    /\ UNCHANGED <<proc, metrics, numPartitions, i, tmp, cm, msg, err,
                   timestamp, trace, env, setup, budget, issued>>

(* mutant: the MessageID is the index before the increment *)
CanaryMessagePostIncrement(idx, nanos) ==
    [ProducerID |-> ClientID, MessageID |-> idx - 1, Timestamp |-> UnixMillis(nanos)]

(* the CanaryMessage newCanaryMessage returns *)
CanaryMessage(idx, nanos) ==
    [ProducerID |-> ClientID, MessageID |-> idx, Timestamp |-> UnixMillis(nanos)]

(* the rest of newCanaryMessage, msg.Value/msg.Partition, and the call of  *)
(* ps.producer.SendMessage(msg), which then blocks                         *)
SendMessageCall(c) ==
    /\ proc = "running"
    /\ pc[c] = "build"
    /\ LET m == CanaryMessage(index, Now)
           part == Int32(i[c])
       IN  /\ cm' = [cm EXCEPT ![c] = m]
           /\ msg' = [msg EXCEPT ![c] = [Topic |-> Topic, Value |-> Json(m),
                                         Partition |-> part]]
           /\ issued' = Append(issued, m.MessageID)
           /\ producerSends' = [producerSends EXCEPT ![part] = @ + 1]
           /\ trace' = [trace EXCEPT ![c] =
                 Append(@, Event("send", part, NoLabel, m.MessageID, UnixMillis(Now)))]
    /\ pc' = [pc EXCEPT ![c] = "wait"]
    /\ UNCHANGED <<proc, index, metrics, numPartitions, i, tmp, err, timestamp,
                   clock, monotonic, producerErrors, producerClosed, saramaErrors,
                   setup, budget>>

(* ps.producer.SendMessage returns (failed: with an error), and            *)
(* timestamp := time.Now().UnixNano() / 1000000                            *)
SendMessageReturn(c, failed) ==
    /\ proc = "running"
    /\ pc[c] = "wait"
    /\ err' = [err EXCEPT ![c] = failed]
    /\ timestamp' = [timestamp EXCEPT ![c] = UnixMillis(Now)]
    /\ producerErrors' = [producerErrors EXCEPT ![msg[c].Partition] =
                             IF failed THEN @ + 1 ELSE @]
    /\ trace' = [trace EXCEPT ![c] =
          Append(@, Event(IF failed THEN "error" ELSE "ack", msg[c].Partition,
                          NoLabel, 0, UnixMillis(Now)))]
    /\ pc' = [pc EXCEPT ![c] = "produced"]
    /\ UNCHANGED <<proc, index, metrics, numPartitions, i, tmp, cm, msg,
                   clock, monotonic, producerSends, producerClosed, saramaErrors,
                   setup, budget, issued>>

(* mutant: recordsProduced counts only the sends that succeeded *)
IncProducedOnSuccess(c) ==
    /\ proc = "running"
    /\ pc[c] = "produced"
    /\ LET l == Labels(i[c])
       IN  /\ recordsProduced' =
                 [recordsProduced EXCEPT ![l] = IF err[c] THEN @ ELSE @ + 1]
           /\ trace' = [trace EXCEPT ![c] =
                 Append(@, Event("produced", i[c], l, 1, 0))]
    /\ pc' = [pc EXCEPT ![c] = "outcome"]
    /\ UNCHANGED <<proc, index, recordsProducedFailed, recordsProducedLatency,
                   numPartitions, i, tmp, cm, msg, err, timestamp, env,
                   setup, budget, issued>>

(* recordsProduced.With(labels).Inc() *)
IncProduced(c) ==
    /\ proc = "running"
    /\ pc[c] = "produced"
    /\ LET l == Labels(i[c])
       IN  /\ recordsProduced' = [recordsProduced EXCEPT ![l] = @ + 1]
           /\ trace' = [trace EXCEPT ![c] =
                 Append(@, Event("produced", i[c], l, 1, 0))]
    /\ pc' = [pc EXCEPT ![c] = "outcome"]
    /\ UNCHANGED <<proc, index, recordsProducedFailed, recordsProducedLatency,
                   numPartitions, i, tmp, cm, msg, err, timestamp, env,
                   setup, budget, issued>>

(* mutant: every send is counted as failed *)
FailedAlways(e) == TRUE

(* mutant: the error is ignored *)
FailedNever(e) == FALSE

(* the branch Send takes after recordsProduced: err != nil *)
Failed(e) == e

(* mutant: a failed send is retried on the same partition *)
AfterFailureRetry(iv, n) == iv

(* mutant: a failed send leaves the loop *)
AfterFailureBreak(iv, n) == n

(* the loop variable after an iteration whose send failed: the loop is not *)
(* left (no break, no return), i++ runs                                    *)
AfterFailure(iv, n) == iv + 1

(* err != nil: recordsProducedFailed.With(labels).Inc(); then i++ *)
IncFailed(c) ==
    /\ proc = "running"
    /\ pc[c] = "outcome"
    /\ Failed(err[c])
    /\ LET l == Labels(i[c])
       IN  /\ recordsProducedFailed' = [recordsProducedFailed EXCEPT ![l] = @ + 1]
           /\ trace' = [trace EXCEPT ![c] =
                 Append(@, Event("failed", i[c], l, 1, 0))]
    /\ i' = [i EXCEPT ![c] = AfterFailure(i[c], numPartitions[c])]
    /\ pc' = [pc EXCEPT ![c] = "loop"]
    /\ UNCHANGED <<proc, index, recordsProduced, recordsProducedLatency,
                   numPartitions, tmp, cm, msg, err, timestamp, env,
                   setup, budget, issued>>

(* err == nil: recordsProducedLatency.With(labels).Observe(float64(duration)); i++ *)
ObserveLatency(c) ==
    /\ proc = "running"
    /\ pc[c] = "outcome"
    /\ ~Failed(err[c])
    /\ LET l == Labels(i[c])
           duration == Duration(timestamp[c], cm[c].Timestamp)
       IN  /\ recordsProducedLatency' =
                 [recordsProducedLatency EXCEPT ![l] = Append(@, Float64(duration))]
           /\ trace' = [trace EXCEPT ![c] =
                 Append(@, Event("latency", i[c], l, Float64(duration), 0))]
    /\ i' = [i EXCEPT ![c] = @ + 1]
    /\ pc' = [pc EXCEPT ![c] = "loop"]
    /\ UNCHANGED <<proc, index, recordsProduced, recordsProducedFailed,
                   numPartitions, tmp, cm, msg, err, timestamp, env,
                   setup, budget, issued>>

(* ------------------------------- Refresh ------------------------------- *)

(* Refresh is called: ps.client.RefreshMetadata(ps.canaryConfig.Topic) *)
RefreshCall(c) ==
    /\ proc = "running"
    /\ pc[c] = "idle"
    /\ pc' = [pc EXCEPT ![c] = "refresh"]
    /\ UNCHANGED <<proc, index, metrics, numPartitions, i, tmp, cm, msg, err,
                   timestamp, trace, env, setup, budget, issued>>

(* mutant: a refresh error is fatal *)
AfterRefreshFatal(failed) == IF failed THEN "exited" ELSE "running"

(* what Refresh does with the result of RefreshMetadata: an error is only  *)
(* logged                                                                  *)
AfterRefresh(failed) == "running"

(* RefreshMetadata returns (failed: with an error, which is logged) and    *)
(* Refresh returns                                                         *)
RefreshReturn(c, failed) ==
    /\ proc = "running"
    /\ pc[c] = "refresh"
    /\ pc' = [pc EXCEPT ![c] = "idle"]
    /\ proc' = AfterRefresh(failed)
    /\ saramaErrors' = IF failed THEN saramaErrors \cup {"refresh"} ELSE saramaErrors
    /\ UNCHANGED <<index, metrics, numPartitions, i, tmp, cm, msg, err,
                   timestamp, trace, clock, monotonic, producerSends,
                   producerErrors, producerClosed, setup, budget, issued>>

(* -------------------------------- Close -------------------------------- *)

(* what Close does when ps.producer.Close() returned an error: os.Exit(1) *)
AfterCloseError == "exited"

(* Close: ps.producer.Close() returned nil *)
CloseOk(c) ==
    /\ proc = "running"
    /\ pc[c] = "idle"
    /\ producerClosed < MaxCloses
    /\ producerClosed' = producerClosed + 1
    /\ UNCHANGED <<proc, index, metrics, locals, clock, monotonic, producerSends,
                   producerErrors, saramaErrors, setup, budget, issued>>

(* Close: ps.producer.Close() returned an error *)
CloseError(c) ==
    /\ proc = "running"
    /\ pc[c] = "idle"
    /\ producerClosed < MaxCloses
    /\ proc' = AfterCloseError
    /\ saramaErrors' = saramaErrors \cup {"close"}
    /\ UNCHANGED <<index, metrics, locals, clock, monotonic, producerSends,
                   producerErrors, producerClosed, setup, budget, issued>>

(* ------------------------------ the clock ------------------------------ *)

(* Send reads the clock when it builds a message and when SendMessage has  *)
(* returned; the clock moves only while a goroutine is about to read it    *)
(* (a move nobody reads is not observable)                                 *)
ClockRead == \E c \in Callers : pc[c] \in {"build", "wait"}

(* time passes *)
Tick ==
    /\ proc = "running"
    /\ ClockRead
    /\ clock < MaxClock
    /\ clock' = clock + 1
    /\ UNCHANGED <<proc, index, metrics, locals, monotonic, producerSends,
                   producerErrors, producerClosed, saramaErrors, setup, budget, issued>>

(* the wall clock is set back (once in a run) *)
Skew ==
    /\ proc = "running"
    /\ ClockRead
    /\ monotonic
    /\ clock > 0
    /\ clock' \in 0..(clock - 1)
    /\ monotonic' = FALSE
    /\ UNCHANGED <<proc, index, metrics, locals, producerSends, producerErrors,
                   producerClosed, saramaErrors, setup, budget, issued>>

(* --------------------------- specifications ---------------------------- *)

Step(c) ==
    \/ \E n \in 0..MaxPartitions : SendStart(c, n)
    \/ SendReturn(c)
    \/ SendDone(c)
    \/ IndexLoad(c)
    \/ IndexStore(c)
    \/ SendMessageCall(c)
    \/ \E failed \in BOOLEAN : SendMessageReturn(c, failed)
    \/ IncProduced(c)
    \/ IncFailed(c)
    \/ ObserveLatency(c)
    \/ RefreshCall(c)
    \/ \E failed \in BOOLEAN : RefreshReturn(c, failed)
    \/ CloseOk(c)
    \/ CloseError(c)
    \/ NewProducerServiceAgain(c)

Next ==
    \/ NewProducerServiceOk
    \/ NewProducerServicePanic
    \/ Step(Scheduler)
    \/ Tick
    \/ Skew

(* one goroutine calls the methods one after the other *)
Spec == Init /\ [][Next]_vars

NextConcurrent ==
    \/ NewProducerServiceOk
    \/ NewProducerServicePanic
    \/ \E c \in Callers : Step(c)

(* any goroutine may call any method at any time *)
SpecConcurrent == Init /\ [][NextConcurrent]_vars

(* ------------------------ reading the event traces --------------------- *)

EventsOf(t, kinds) == SelectSeq(t, LAMBDA e : e.ev \in kinds)

PartitionsOf(t, kinds) ==
    [k \in 1..Len(EventsOf(t, kinds)) |-> EventsOf(t, kinds)[k].partition]

LabelsOf(t, kinds) ==
    [k \in 1..Len(EventsOf(t, kinds)) |-> EventsOf(t, kinds)[k].label]

(* <<0, 1, ..., n-1>> *)
UpTo(n) == [k \in 1..n |-> k - 1]

CountPartition(t, kinds, p) ==
    Len(SelectSeq(t, LAMBDA e : e.ev \in kinds /\ e.partition = p))

CountLabel(t, kinds, l) ==
    Len(SelectSeq(t, LAMBDA e : e.ev \in kinds /\ e.label = l))

(* goroutines between SendMessage's return and the metric update of it *)
Pending(p, failed) ==
    {c \in Callers : pc[c] \in {"produced", "outcome"} /\ err[c] = failed /\ i[c] = p}

(* goroutines whose SendMessage call on partition p has not returned *)
InFlight(p) == {c \in Callers : pc[c] = "wait" /\ msg[c].Partition = p}

Quiescent == \A c \in Callers : pc[c] \in {"idle", "done", "refresh"}

(* -------------------------------- claims ------------------------------- *)

(* C1: an invocation Send(N) that returns has issued exactly N SendMessage *)
(* calls, on the partitions 0, 1, ..., N-1, each once, whatever each call  *)
(* returned, and has incremented recordsProduced once for each of the      *)
(* labels of 0..N-1; between invocations recordsProduced of a label equals *)
(* the number of calls the producer received on that partition.            *)
C1_ExactlyOneAttemptPerPartition ==
    /\ \A c \in Callers : pc[c] = "done" =>
          /\ PartitionsOf(trace[c], {"send"}) = UpTo(numPartitions[c])
          /\ Len(EventsOf(trace[c], {"ack", "error"})) = numPartitions[c]
          /\ LabelsOf(trace[c], {"produced"}) =
                [k \in 1..numPartitions[c] |-> Labels(k - 1)]
    /\ Quiescent =>
          \A p \in 0..MaxPartitions : recordsProduced[Labels(p)] = producerSends[p]

(* C1 witness: Send(2) has returned after a failure on partition 0 and a   *)
(* success on partition 1.                                                 *)
C1_Witness ==
    \E c \in Callers :
        /\ pc[c] = "done"
        /\ numPartitions[c] = 2
        /\ PartitionsOf(trace[c], {"error"}) = <<0>>
        /\ PartitionsOf(trace[c], {"ack"}) = <<1>>

(* C2: with non-overlapping invocations the MessageIDs of the messages     *)
(* newCanaryMessage builds are 1, 2, 3, ... in build order, and ps.index   *)
(* is the number of messages built so far (one more while ps.index++ has   *)
(* stored and the message is not built yet).                               *)
C2_SequenceNumbersConsecutive ==
    /\ issued = [k \in 1..Len(issued) |-> k]
    /\ index = Len(issued) + Cardinality({c \in Callers : pc[c] = "build"})

(* C2 witness: three messages built over two invocations, on different     *)
(* partitions, after a failed send.                                        *)
C2_Witness ==
    /\ Len(issued) = 3
    /\ budget = 3
    /\ producerErrors[0] >= 1
    /\ producerSends[1] >= 1
    /\ \E c \in Callers : pc[c] = "wait" /\ numPartitions[c] = 1

(* C3: in an invocation that returns, if the send to partition k returned  *)
(* an error, every later partition j in k+1..N-1 was still sent to, once,  *)
(* and its metrics follow from its own outcome alone: recordsProduced     *)
(* once, recordsProducedFailed once iff its own send failed, one latency   *)
(* sample iff its own send succeeded.                                      *)
C3_FailureDoesNotStopLaterPartitions ==
    \A c \in Callers : pc[c] = "done" =>
        \A k \in 0..(numPartitions[c] - 1) :
            CountPartition(trace[c], {"error"}, k) > 0 =>
                \A j \in (k + 1)..(numPartitions[c] - 1) :
                    /\ CountPartition(trace[c], {"send"}, j) = 1
                    /\ CountLabel(trace[c], {"produced"}, Labels(j)) = 1
                    /\ CountLabel(trace[c], {"failed"}, Labels(j)) =
                          CountPartition(trace[c], {"error"}, j)
                    /\ CountLabel(trace[c], {"latency"}, Labels(j)) =
                          CountPartition(trace[c], {"ack"}, j)
                    /\ CountPartition(trace[c], {"ack", "error"}, j) = 1

(* C3 witness: Send(2) has returned; partition 0 failed, partition 1 was   *)
(* sent to afterwards and succeeded.                                       *)
C3_Witness ==
    \E c \in Callers :
        /\ pc[c] = "done"
        /\ numPartitions[c] = 2
        /\ PartitionsOf(trace[c], {"send", "error", "ack"}) = <<0, 0, 1, 1>>
        /\ CountPartition(trace[c], {"error"}, 0) = 1
        /\ CountLabel(trace[c], {"latency"}, Labels(1)) = 1

(* C4: recordsProducedFailed of the label of partition p counts exactly the *)
(* SendMessage calls on p that returned an error (those whose metric       *)
(* update is still to come included): one increment per failed send, none  *)
(* for a successful one, none on another label.                            *)
C4_FailedCountsExactlyTheErrors ==
    \A p \in 0..MaxPartitions :
        recordsProducedFailed[Labels(p)] + Cardinality(Pending(p, TRUE))
            = producerErrors[p]

(* C4 witness: partition 0 succeeded and partition 1 failed, and both      *)
(* metric updates are done.                                                *)
C4_Witness ==
    /\ Quiescent
    /\ producerSends[0] = 1 /\ producerErrors[0] = 0
    /\ producerSends[1] = 1 /\ producerErrors[1] = 1
    /\ recordsProducedFailed[Labels(1)] = 1
    /\ recordsProducedFailed[Labels(0)] = 0

(* C5: the latency histogram of the label of partition p holds exactly one *)
(* sample per SendMessage call on p that returned without error (those     *)
(* whose metric update is still to come included) and none for a failed    *)
(* call; so a first Send(2) with partition 0 succeeding and partition 1    *)
(* failing ends with 1 produced / 0 failed / 1 sample on partition 0 and   *)
(* 1 produced / 1 failed / 0 samples on partition 1.                       *)
C5_LatencySampleIffSuccess ==
    /\ \A p \in 0..MaxPartitions :
          Len(recordsProducedLatency[Labels(p)]) + Cardinality(Pending(p, FALSE))
              = producerSends[p] - producerErrors[p] - Cardinality(InFlight(p))
    /\ \A c \in Callers :
          (/\ pc[c] = "done"
           /\ numPartitions[c] = 2
           /\ budget = 2
           /\ PartitionsOf(trace[c], {"ack"}) = <<0>>
           /\ PartitionsOf(trace[c], {"error"}) = <<1>>)
          => /\ recordsProduced[Labels(0)] = 1
             /\ recordsProducedFailed[Labels(0)] = 0
             /\ Len(recordsProducedLatency[Labels(0)]) = 1
             /\ recordsProduced[Labels(1)] = 1
             /\ recordsProducedFailed[Labels(1)] = 1
             /\ Len(recordsProducedLatency[Labels(1)]) = 0

(* C5 witness: the first Send(2) has returned with partition 0 succeeding  *)
(* and partition 1 failing.                                                *)
C5_Witness ==
    \E c \in Callers :
        /\ pc[c] = "done"
        /\ numPartitions[c] = 2
        /\ budget = 2
        /\ PartitionsOf(trace[c], {"ack"}) = <<0>>
        /\ PartitionsOf(trace[c], {"error"}) = <<1>>

(* C6: every latency sample is the clock's millisecond reading when the    *)
(* SendMessage call of that iteration returned minus the reading when the  *)
(* message of that iteration was built, and while the clock has never gone *)
(* backwards every sample is >= 0.                                         *)
C6_LatencyIsAckMinusCreated ==
    /\ \A c \in Callers : \A k \in 1..Len(trace[c]) :
          trace[c][k].ev = "latency" =>
              /\ k >= 4
              /\ trace[c][k - 2].ev = "ack"
              /\ trace[c][k - 3].ev = "send"
              /\ trace[c][k].val = trace[c][k - 2].ts - trace[c][k - 3].ts
              /\ recordsProducedLatency[trace[c][k].label]
                    [Len(recordsProducedLatency[trace[c][k].label])
                        - CountLabel(SubSeq(trace[c], k + 1, Len(trace[c])),
                                     {"latency"}, trace[c][k].label)]
                    = trace[c][k].val
    /\ monotonic =>
          \A l \in LabelSet : \A k \in 1..Len(recordsProducedLatency[l]) :
              recordsProducedLatency[l][k] >= 0

(* C6 witness: a sample of 1 ms was recorded (the clock advanced between   *)
(* the building of the message and the return of its send) under a clock   *)
(* that never went backwards.                                              *)
C6_Witness ==
    /\ monotonic
    /\ \E c \in Callers : \E k \in 1..Len(trace[c]) :
          trace[c][k].ev = "latency" /\ trace[c][k].val = 1

(* C7: no step of an invocation Send(0) changes ps.index, a metric, the    *)
(* list of messages built or the calls the producer received, and the      *)
(* invocation goes from its loop test straight to its return.              *)
C7_SendZeroIsNoOp ==
    [][\A c \in Callers :
          (/\ pc'[c] \in {"loop", "store", "build", "wait", "produced", "outcome", "done"}
           /\ numPartitions'[c] = 0)
          => /\ index' = index
             /\ metrics' = metrics
             /\ issued' = issued
             /\ producerSends' = producerSends
             /\ pc'[c] \in {"loop", "done"}]_vars

(* C7 witness: Send(0) has returned after earlier sends had moved the      *)
(* counter and the metrics off zero.                                       *)
C7_Witness ==
    \E c \in Callers :
        /\ pc[c] = "done"
        /\ numPartitions[c] = 0
        /\ index > 0
        /\ recordsProduced[Labels(0)] > 0

(* C8: when Send invocations overlap, no two messages carry the same      *)
(* MessageID, and once all invocations are over the MessageIDs issued are  *)
(* exactly 1..M for the M messages built, with ps.index = M.               *)
C8_OverlappingSendsKeepSequenceUnique ==
    /\ \A a, b \in 1..Len(issued) : a # b => issued[a] # issued[b]
    /\ Quiescent =>
          /\ {issued[k] : k \in 1..Len(issued)} = 1..Len(issued)
          /\ index = Len(issued)

(* C9: once a Close has succeeded, a further Close leaves the process      *)
(* running.                                                                *)
C9_SecondCloseDoesNotTerminate ==
    producerClosed >= 1 => proc = "running"

(* C10: once Close has been called and has closed the producer, no step    *)
(* issues a SendMessage call, increments ps.index or increments            *)
(* recordsProduced.                                                        *)
C10_NoSendAfterClose ==
    [][producerClosed >= 1 =>
          /\ producerSends' = producerSends
          /\ index' = index
          /\ recordsProduced' = recordsProduced]_vars


(* C11: the process is panicked exactly when creating the producer failed  *)
(* in NewProducerService (and then no service was ever used), it has       *)
(* exited exactly when a producer.Close() returned an error, and in every  *)
(* other case - whatever the SendMessage and RefreshMetadata calls         *)
(* returned, and after a Close that succeeded - it is still running.       *)
C11_OnlyConstructionAndCloseErrorsAreFatal ==
    /\ proc \in {"start", "running", "exited", "panicked"}
    /\ proc = "panicked" <=> "new" \in saramaErrors
    /\ proc = "exited" <=> "close" \in saramaErrors
    /\ proc = "panicked" =>
          /\ index = 0
          /\ budget = 0
          /\ producerClosed = 0
          /\ \A c \in Callers : pc[c] = "idle"
    /\ (saramaErrors \subseteq {"refresh"} /\ proc # "start") => proc = "running"

(* C16: a second ProducerService can be constructed while the first one    *)
(* exists: as long as no producer creation failed, every NewProducerService *)
(* call has returned an instance (with its own index, starting at 0) and   *)
(* the process is running.                                                 *)
C16_SecondInstanceCanBeConstructed ==
    (newCalls >= 2 /\ "new" \notin saramaErrors) => proc = "running"

(* C12: when RefreshMetadata returns, with or without an error, Refresh     *)
(* returns to its caller, the process keeps running and nothing but the    *)
(* caller's position changes; and after a failed refresh the Sends issue   *)
(* the same MessageIDs 1, 2, 3, ... and update the metrics from the send   *)
(* outcomes exactly as they do without one.                                *)
C12_RefreshErrorIsNotEscalated ==
    /\ [][\A c \in Callers :
            (pc[c] = "refresh" /\ pc'[c] # "refresh") =>
                /\ pc'[c] = "idle"
                /\ proc' = "running"
                /\ UNCHANGED <<index, metrics, issued, budget, numPartitions, i,
                               tmp, cm, msg, err, timestamp, trace, clock,
                               producerSends, producerErrors, producerClosed>>]_vars
    /\ []("refresh" \in saramaErrors =>
            /\ issued = [k \in 1..Len(issued) |-> k]
            /\ \A p \in 0..MaxPartitions :
                  /\ recordsProduced[Labels(p)]
                        + Cardinality({c \in Callers : pc[c] = "produced" /\ i[c] = p})
                        + Cardinality(InFlight(p)) = producerSends[p]
                  /\ recordsProducedFailed[Labels(p)] + Cardinality(Pending(p, TRUE))
                        = producerErrors[p])

(* C12 witness: RefreshMetadata failed, Refresh returned, and the Send(2)  *)
(* called afterwards has returned with the MessageIDs 1 and 2 issued and   *)
(* one failure counted.                                                    *)
C12_Witness ==
    /\ "refresh" \in saramaErrors
    /\ proc = "running"
    /\ pc[Scheduler] = "done"
    /\ numPartitions[Scheduler] = 2
    /\ budget = 2
    /\ issued = <<1, 2>>
    /\ recordsProducedFailed[Labels(1)] = 1

(* C13: the events of one invocation come in groups of four, one group per *)
(* partition in the order 0, 1, 2, ...: the SendMessage call on partition  *)
(* q, its return, the recordsProduced increment for q, then the failed     *)
(* increment (after an error) or the latency sample (after success) for q; *)
(* so the next message is built and sent only after the previous send has  *)
(* returned and its metrics are updated, and at most one call of the       *)
(* invocation is in flight.                                                *)
C13_PartitionsInOrderOneAtATime ==
    \A c \in Callers :
        /\ \A k \in 1..Len(trace[c]) :
              LET q == (k - 1) \div 4
                  r == (k - 1) % 4
                  e == trace[c][k]
              IN  /\ r = 0 => e.ev = "send" /\ e.partition = q
                  /\ r = 1 => e.ev \in {"ack", "error"} /\ e.partition = q
                  /\ r = 2 => e.ev = "produced" /\ e.label = Labels(q)
                  /\ r = 3 => /\ e.label = Labels(q)
                              /\ e.ev = IF trace[c][k - 2].ev = "error"
                                        THEN "failed" ELSE "latency"
        /\ Len(EventsOf(trace[c], {"send"}))
              - Len(EventsOf(trace[c], {"ack", "error"})) \in {0, 1}
        /\ Len(EventsOf(trace[c], {"send"}))
              - Len(EventsOf(trace[c], {"ack", "error"})) = 1 <=> pc[c] = "wait"
        /\ pc[c] \in {"loop", "store", "build", "done"} => Len(trace[c]) = 4 * i[c]

(* C13 witness: the send to partition 1 is in flight after the send to     *)
(* partition 0 failed and its two metric updates were made.                *)
C13_Witness ==
    \E c \in Callers :
        /\ pc[c] = "wait"
        /\ Len(trace[c]) = 5
        /\ trace[c][2].ev = "error"
        /\ trace[c][4].ev = "failed"
        /\ trace[c][5].partition = 1

(* C14: overlapping Send invocations exclude each other over a whole       *)
(* fan-out: at most one goroutine is inside Send's loop, so at most one    *)
(* SendMessage call is in flight on the shared producer, and the messages  *)
(* of an invocation carry consecutive MessageIDs in partition order.       *)
C14_OverlappingSendsAreMutuallyExclusive ==
    /\ Cardinality({c \in Callers :
          pc[c] \in {"loop", "store", "build", "wait", "produced", "outcome"}}) <= 1
    /\ Cardinality({c \in Callers : pc[c] = "wait"}) <= 1
    /\ \A c \in Callers :
          LET sent == EventsOf(trace[c], {"send"})
          IN  \A k \in 2..Len(sent) : sent[k].val = sent[k - 1].val + 1

SendStep(c) ==
    \/ SendReturn(c)
    \/ IndexLoad(c)
    \/ IndexStore(c)
    \/ SendMessageCall(c)
    \/ \E failed \in BOOLEAN : SendMessageReturn(c, failed)
    \/ IncProduced(c)
    \/ IncFailed(c)
    \/ ObserveLatency(c)

(* Spec with a goroutine inside Send that keeps running, and with every    *)
(* SendMessage call returning eventually                                   *)
SpecFair == Spec /\ WF_vars(SendStep(Scheduler))

InSend(c) == pc[c] \in {"loop", "store", "build", "wait", "produced", "outcome"}

(* C17: if every SendMessage call returns, a Send that was called returns, *)
(* after exactly N iterations; and Send has no timeout of its own: while   *)
(* a SendMessage call is in flight the invocation does nothing until that  *)
(* call returns, so no later partition is attempted before.                *)
C17_SendTerminatesIffSendsReturn ==
    /\ \A c \in {Scheduler} : InSend(c) ~> pc[c] = "done"
    /\ [](\A c \in Callers : pc[c] = "done" =>
            /\ i[c] = numPartitions[c]
            /\ Len(trace[c]) = 4 * numPartitions[c])
    /\ [][\A c \in Callers : pc[c] = "wait" =>
            /\ producerSends' = producerSends
            /\ i'[c] = i[c]
            /\ \/ pc'[c] = "wait" /\ trace'[c] = trace[c]
               \/ /\ pc'[c] = "produced"
                  /\ Len(trace'[c]) = Len(trace[c]) + 1
                  /\ trace'[c][Len(trace'[c])].ev \in {"ack", "error"}]_vars

(* C17 witness: Send(2) has returned after two iterations. *)
C17_Witness ==
    /\ pc[Scheduler] = "done"
    /\ numPartitions[Scheduler] = 2
    /\ i[Scheduler] = 2
    /\ Len(trace[Scheduler]) = 8

(* C18: between non-overlapping invocations ps.index equals the number of  *)
(* messages asked for so far; in an invocation Send(N) that started with   *)
(* ps.index = s, the message handed to SendMessage for partition i is the  *)
(* one built in iteration i, with MessageID s+i+1 and ProducerID the       *)
(* client id, also in its payload; and on return ps.index = s+N, whatever  *)
(* the sends returned.                                                     *)
C18_GlobalSequencePerMessage ==
    /\ (\A c \in Callers : pc[c] \in {"idle", "refresh"}) => index = budget
    /\ \A c \in Callers :
          LET s    == budget - numPartitions[c]
              sent == EventsOf(trace[c], {"send"})
          IN  /\ pc[c] = "wait" =>
                    /\ cm[c].MessageID = s + i[c] + 1
                    /\ cm[c].ProducerID = ClientID
                    /\ msg[c].Topic = Topic
                    /\ msg[c].Partition = i[c]
                    /\ msg[c].Value = Json(cm[c])
                    /\ msg[c].Value[2] = ClientID
                    /\ msg[c].Value[4] = Itoa(s + i[c] + 1)
              /\ InSend(c) \/ pc[c] = "done" =>
                    \A k \in 1..Len(sent) :
                        sent[k].val = s + k /\ sent[k].partition = k - 1
              /\ pc[c] = "done" => index = s + numPartitions[c]

(* C18 witness: the second message of a Send(2) that started with          *)
(* ps.index = 1 is in flight on partition 1 with MessageID 3, after a      *)
(* failed send.                                                            *)
C18_Witness ==
    \E c \in Callers :
        /\ pc[c] = "wait"
        /\ numPartitions[c] = 2
        /\ budget = 3
        /\ i[c] = 1
        /\ cm[c].MessageID = 3
        /\ msg[c].Partition = 1
        /\ producerErrors[0] >= 1

(* C19: for every label, whenever no goroutine stands between the          *)
(* recordsProduced increment and the failed increment or latency sample of *)
(* that label, recordsProduced = recordsProducedFailed + number of latency *)
(* samples; recordsProducedFailed <= recordsProduced always; and no step   *)
(* (of Send, Refresh, Close or construction) decreases a counter or        *)
(* removes or alters a recorded sample.                                    *)
C19_AccountingPerLabel ==
    /\ [](\A l \in LabelSet :
            /\ (\A c \in Callers : ~(pc[c] = "outcome" /\ Labels(i[c]) = l)) =>
                  recordsProduced[l] =
                      recordsProducedFailed[l] + Len(recordsProducedLatency[l])
            /\ recordsProducedFailed[l] <= recordsProduced[l])
    /\ [][\A l \in LabelSet :
            /\ recordsProduced'[l] >= recordsProduced[l]
            /\ recordsProducedFailed'[l] >= recordsProducedFailed[l]
            /\ Len(recordsProducedLatency'[l]) >= Len(recordsProducedLatency[l])
            /\ SubSeq(recordsProducedLatency'[l], 1, Len(recordsProducedLatency[l]))
                  = recordsProducedLatency[l]]_vars

(* C19 witness: after a Refresh that failed and a Close, label 0 stands at *)
(* 2 produced = 1 failed + 1 sample with no update pending.                *)
C19_Witness ==
    /\ \A c \in Callers : pc[c] = "idle"
    /\ recordsProduced[Labels(0)] = 2
    /\ recordsProducedFailed[Labels(0)] = 1
    /\ Len(recordsProducedLatency[Labels(0)]) = 1
    /\ producerClosed >= 1
    /\ "refresh" \in saramaErrors

RECURSIVE SumOver(_, _)
(* the sum of f[x] over the x in S *)
SumOver(f, S) ==
    IF S = {} THEN 0
    ELSE LET x == CHOOSE y \in S : TRUE IN f[x] + SumOver(f, S \ {x})

(* C20: with non-overlapping invocations, whenever no Send is under way    *)
(* ps.index equals the sum of recordsProduced over all partition labels    *)
(* (every message built was attempted once and every attempt counted),     *)
(* and a Refresh - its call and its return, failed or not - changes        *)
(* neither ps.index nor a metric.                                          *)
C20_IndexEqualsTotalProduced ==
    /\ []((\A c \in Callers : pc[c] \in {"idle", "done", "refresh"}) =>
            index = SumOver(recordsProduced, LabelSet))
    /\ [][\A c \in Callers :
            (pc[c] = "refresh" \/ pc'[c] = "refresh") =>
                index' = index /\ metrics' = metrics]_vars

(* C20 witness: after a failed Refresh and no Close, three messages were   *)
(* built over the Sends, one send failed, and ps.index = 3 = 2 + 1.        *)
C20_Witness ==
    /\ \A c \in Callers : pc[c] = "idle"
    /\ producerClosed = 0
    /\ "refresh" \in saramaErrors
    /\ index = 3
    /\ recordsProduced[Labels(0)] = 2
    /\ recordsProduced[Labels(1)] = 1
    /\ recordsProducedFailed[Labels(1)] = 1

=============================================================================
